---------------------------- MODULE Spec2Model ----------------------------
(***************************************************************************)
(* Model of argpoints (src/argpoints/__init__.py): a git-style subcommand  *)
(* dispatcher.  `<name> <sub> args...` looks for an executable called      *)
(* `<name>-<sub>` on the search path and replaces itself by it.            *)
(*                                                                         *)
(* Strings whose characters the code inspects (file names, command names,  *)
(* subcommand names) are sequences of one-character strings, so that       *)
(* str.startswith, str.split, str.join and os.path.splitext are computed   *)
(* as Python computes them.  Directories are atoms: the code never looks   *)
(* inside a directory string.                                              *)
(***************************************************************************)
EXTENDS Integers, Sequences, FiniteSets, TLC

VARIABLES
    platformWin,        \* sys.platform.startswith("win")
    environPATH,        \* os.environ.get("PATH"), split on os.pathsep; << >> when unset or empty
    scriptsDir,         \* sysconfig.get_path("scripts"), or NoScripts when it raises KeyError
    argv0,              \* sys.argv[0]: [dir, exec, link, realdir]
    argv,               \* sys.argv[1:]
    dirState,           \* per directory: "ok", "unreadable" (listdir fails) or "absent"
    files,              \* the directory entries: records [dir, name, kind]
    pc,                 \* position of the running operation
    cmdName,            \* the `name` / `command_name` argument
    subArg,             \* the `subcommand` argument of _command_abspath
    subcommand_tuples,  \* list_subcommands: the set of segment tuples recorded
    listed,             \* list_subcommands: outcome [raised, value]
    resolved,           \* _command_abspath: outcome [kind, match, name, msg]
    launchErr,          \* errno of the OSError _execvp raised, 0 when it raised none
    exitStatus          \* how the dispatch run ended: [how, code, msg, errno]

vars == << platformWin, environPATH, scriptsDir, argv0, argv, dirState, files,
           pc, cmdName, subArg, subcommand_tuples, listed, resolved, launchErr,
           exitStatus >>

envVars == << platformWin, environPATH, scriptsDir, argv0, argv, dirState, files >>

(***************************************************************************)
(* Bounds of the model.                                                    *)
(***************************************************************************)
MaxPath == 2        \* longest inherited PATH, in directories
MaxFiles == 3       \* most directory entries in the file system of a listing run
MaxArgs == 2        \* longest argument vector after argv[0]

(***************************************************************************)
(* The universe of the model.                                              *)
(***************************************************************************)
Dirs == {"d1", "d2", "d3"}
ListDirs == {"d1", "d2"}
NoDir == "<none>"           \* os.path.dirname(argv[0]) == "": not a directory
NoScripts == "<noscripts>"  \* sysconfig.get_path raised KeyError
DefPath == << "d3" >>       \* os.defpath, split

Hyphen == "-"
Dot == "."
StrN == << "n" >>
StrNM == << "n", "-", "m" >>
StrF == << "f" >>
StrB == << "b" >>
StrEmpty == << >>
StrGeneric == << "g" >>     \* stands for "generic_subcommand"
CommandNames == {StrN, StrNM}

FileNF == << "n", "-", "f" >>
FileNFB == << "n", "-", "f", "-", "b" >>
FileNBF == << "n", "-", "b", "-", "f" >>
FileNMF == << "n", "-", "m", "-", "f" >>
FileNFdotB == << "n", "-", "f", ".", "b" >>
FileNoPrefix == << "n", "f" >>
FileNames == {FileNF, FileNFB, FileNBF, FileNMF, FileNFdotB, FileNoPrefix}
Kinds == {"exec", "noexec", "dir"}

(***************************************************************************)
(* Python string operations, on sequences of characters.                   *)
(***************************************************************************)
\* str.startswith
StartsWith(s, p) == Len(p) <= Len(s) /\ SubSeq(s, 1, Len(p)) = p

\* index of the first sep in s, 0 when there is none (str.find, 1-based)
RECURSIVE FindFrom(_, _, _)
FindFrom(s, sep, i) ==
    IF i > Len(s) THEN 0
    ELSE IF s[i] = sep THEN i
    ELSE FindFrom(s, sep, i + 1)

\* str.split(sep): the sequence of the pieces between separators
RECURSIVE Split(_, _)
Split(s, sep) ==
    LET i == FindFrom(s, sep, 1) IN
    IF i = 0 THEN << s >>
    ELSE << SubSeq(s, 1, i - 1) >> \o Split(SubSeq(s, i + 1, Len(s)), sep)

\* sep.join(tup)
RECURSIVE Join(_, _)
Join(sep, tup) ==
    IF Len(tup) = 0 THEN << >>
    ELSE IF Len(tup) = 1 THEN tup[1]
    ELSE tup[1] \o << sep >> \o Join(sep, Tail(tup))

\* index of the last sep in s, 0 when there is none (str.rfind, 1-based)
RECURSIVE RFindFrom(_, _, _)
RFindFrom(s, sep, i) ==
    IF i < 1 THEN 0
    ELSE IF s[i] = sep THEN i
    ELSE RFindFrom(s, sep, i - 1)

\* os.path.splitext(p)[0] for a name without directory part: cut at the last
\* dot, unless only dots precede it
SplitextRoot(p) ==
    LET d == RFindFrom(p, Dot, Len(p)) IN
    IF d > 0 /\ \E k \in 1..(d - 1) : p[k] # Dot
    THEN SubSeq(p, 1, d - 1)
    ELSE p

\* ord() of the characters of the model
Ord(c) ==
    CASE c = "-" -> 45
      [] c = "." -> 46
      [] c = "N" -> 78
      [] c = "b" -> 98
      [] c = "f" -> 102
      [] c = "g" -> 103
      [] c = "m" -> 109
      [] c = "n" -> 110

\* str.__lt__
RECURSIVE StrLess(_, _)
StrLess(a, b) ==
    IF Len(b) = 0 THEN FALSE
    ELSE IF Len(a) = 0 THEN TRUE
    ELSE IF a[1] # b[1] THEN Ord(a[1]) < Ord(b[1])
    ELSE StrLess(Tail(a), Tail(b))

\* sorted(S) for a set of strings
RECURSIVE Sorted(_)
Sorted(S) ==
    IF S = {} THEN << >>
    ELSE LET least == CHOOSE x \in S : \A y \in S \ {x} : StrLess(x, y)
         IN << least >> \o Sorted(S \ {least})

\* str.capitalize on the command names of the model
Capitalize(s) ==
    IF Len(s) = 0 THEN s
    ELSE << IF s[1] = "n" THEN "N" ELSE s[1] >> \o Tail(s)

\* the elements of a sequence
Range(seq) == {seq[i] : i \in 1..Len(seq)}

(***************************************************************************)
(* The file system, as the os module reports it.                           *)
(***************************************************************************)
\* os.path.isdir(d)
IsDir(d) == d \in Dirs /\ dirState[d] # "absent"

\* os.listdir(d) raises OSError
ListdirFails(d) == d \notin Dirs \/ dirState[d] # "ok"

\* os.listdir(d), when it does not raise
Listdir(d) == {f.name : f \in {g \in files : g.dir = d}}

\* the kind of the entry called n in d, "none" when there is none
KindOf(d, n) ==
    IF \E f \in files : f.dir = d /\ f.name = n
    THEN (CHOOSE f \in files : f.dir = d /\ f.name = n).kind
    ELSE "none"

\* a slip: os.path.exists alone, a directory of that name counts
AccessCheckExists(d, n) == KindOf(d, n) # "none"

\* shutil._access_check(join(d, n), os.F_OK): exists and is not a directory
AccessCheck(d, n) == KindOf(d, n) \in {"exec", "noexec"}

\* os.access(join(d, n), os.X_OK)
AccessX(d, n) == KindOf(d, n) \in {"exec", "dir"}

(***************************************************************************)
(* _path_with_self                                                         *)
(***************************************************************************)
\* (os.environ.get("PATH") or os.defpath).split(os.pathsep)
InheritedPath == IF environPATH = << >> THEN DefPath ELSE environPATH

\* a slip: the scripts directory is put in front of the inherited PATH
PathScriptsFirst ==
    IF scriptsDir = NoScripts THEN InheritedPath
    ELSE << scriptsDir >> \o InheritedPath

\* the path list after the scripts directory has been appended
PathWithScripts ==
    IF scriptsDir = NoScripts THEN InheritedPath
    ELSE Append(InheritedPath, scriptsDir)

\* scripts = [sys.argv[0]] (+ [realpath] when argv[0] is a symlink), as the
\* directories of the scripts
ScriptDirs ==
    IF argv0.link THEN << argv0.dir, argv0.realdir >> ELSE << argv0.dir >>

\* a slip: path_list.append(bindir) instead of insert(0, bindir)
InsertSelfAtEnd(path_list, bindir) ==
    IF IsDir(bindir) /\ argv0.exec
    THEN Append(path_list, bindir)
    ELSE path_list

\* one turn of the `for script in scripts` loop
InsertSelf(path_list, bindir) ==
    IF IsDir(bindir) /\ argv0.exec
    THEN << bindir >> \o path_list
    ELSE path_list

RECURSIVE InsertScripts(_, _)
InsertScripts(path_list, scripts) ==
    IF scripts = << >> THEN path_list
    ELSE InsertScripts(InsertSelf(path_list, Head(scripts)), Tail(scripts))

path_with_self == InsertScripts(PathWithScripts, ScriptDirs)


(***************************************************************************)
(* list_subcommands                                                        *)
(***************************************************************************)
\* tuple(name.split("-")[1:]), after the extension is removed on Windows
EntryTuple(name) ==
    LET stem == IF platformWin THEN SplitextRoot(name) ELSE name
    IN Tail(Split(stem, Hyphen))

\* the tuples one listable directory contributes
DirTuples(command_name, d) ==
    {EntryTuple(n) :
        n \in {m \in Listdir(d) : StartsWith(m, command_name \o << Hyphen >>)}}

\* a slip: the OSError of os.listdir is not caught
ScanDirUncaught(command_name, d) ==
    IF ListdirFails(d)
    THEN [raised |-> TRUE, tuples |-> {}]
    ELSE [raised |-> FALSE, tuples |-> DirTuples(command_name, d)]

\* one turn of the `for d in _path_with_self()` loop: try/except OSError: continue
ScanDir(command_name, d) ==
    IF ListdirFails(d)
    THEN [raised |-> FALSE, tuples |-> {}]
    ELSE [raised |-> FALSE, tuples |-> DirTuples(command_name, d)]

RECURSIVE ScanPath(_, _)
ScanPath(command_name, path) ==
    IF path = << >> THEN [raised |-> FALSE, tuples |-> {}]
    ELSE LET here == ScanDir(command_name, Head(path))
             rest == ScanPath(command_name, Tail(path))
         IN [raised |-> here.raised \/ rest.raised,
             tuples |-> here.tuples \cup rest.tuples]

\* a slip: a nested tuple is hidden as soon as any shorter tuple was
\* discovered, whether or not it is its parent
ParentAbsentGlobally(sub_tup, tuples) ==
    ~ \E p \in tuples : Len(p) < Len(sub_tup)

\* not any(sub_tup[:i] in subcommand_tuples for i in range(1, len(sub_tup)))
ParentAbsent(sub_tup, tuples) ==
    ~ \E i \in 1..(Len(sub_tup) - 1) : SubSeq(sub_tup, 1, i) \in tuples

\* the set `subcommands`
Subcommands(tuples) ==
    {Join(Hyphen, t) : t \in {u \in tuples : ParentAbsent(u, tuples)}}

list_subcommands(command_name) ==
    LET scan == ScanPath(command_name, path_with_self)
    IN [raised |-> scan.raised,
        tuples |-> scan.tuples,
        value |-> IF scan.raised THEN << >> ELSE Sorted(Subcommands(scan.tuples))]

(***************************************************************************)
(* _command_abspath                                                        *)
(***************************************************************************)
\* a slip: the last directory holding cmd wins
RECURSIVE WhichLast(_, _, _)
WhichLast(cmd, path, seen) ==
    IF path = << >> THEN NoDir
    ELSE IF AccessCheck(path[Len(path)], cmd)
    THEN path[Len(path)]
    ELSE WhichLast(cmd, SubSeq(path, 1, Len(path) - 1), seen)

\* shutil.which(cmd, path=..., mode=os.F_OK) on a platform without PATHEXT,
\* for a cmd without directory part: the first directory, not seen before,
\* where cmd exists and is no directory; NoDir for None
RECURSIVE Which(_, _, _)
Which(cmd, path, seen) ==
    IF path = << >> THEN NoDir
    ELSE IF Head(path) \notin seen /\ AccessCheck(Head(path), cmd)
    THEN Head(path)
    ELSE Which(cmd, Tail(path), seen \cup {Head(path)})

Message(name, subcommand_name, what) ==
    [who |-> Capitalize(name), cmd |-> subcommand_name, what |-> what]

\* a slip: the os.access(abs_path, os.X_OK) check is left out
AbspathOutcomeUnchecked(name, subcommand_name, dir) ==
    IF dir = NoDir
    THEN [kind |-> "notfound", match |-> NoDir, name |-> subcommand_name,
          msg |-> Message(name, subcommand_name, "not found.")]
    ELSE [kind |-> "ok", match |-> dir, name |-> subcommand_name,
          msg |-> Message(name, subcommand_name, "")]

\* the outcome once `abs_path` is known: kind "ok" returns the path
\* join(match, name), the other kinds raise CommandMissing(msg); match is the
\* directory of abs_path, NoDir when abs_path is None
AbspathOutcome(name, subcommand_name, dir) ==
    IF dir = NoDir
    THEN [kind |-> "notfound", match |-> NoDir, name |-> subcommand_name,
          msg |-> Message(name, subcommand_name, "not found.")]
    ELSE IF ~ AccessX(dir, subcommand_name)
    THEN [kind |-> "notexec", match |-> dir, name |-> subcommand_name,
          msg |-> Message(name, subcommand_name, "is not executable.")]
    ELSE [kind |-> "ok", match |-> dir, name |-> subcommand_name,
          msg |-> Message(name, subcommand_name, "")]

command_abspath(name, subcommand) ==
    LET search_path == path_with_self
        subcommand_name == name \o << Hyphen >> \o subcommand
    IN AbspathOutcome(name, subcommand_name,
                      Which(subcommand_name, search_path, {}))

(***************************************************************************)
(* Initial values of the program's own state.                              *)
(***************************************************************************)
NoOutcome == [kind |-> "none", match |-> NoDir, name |-> << >>,
              msg |-> [who |-> << >>, cmd |-> << >>, what |-> ""]]
NoListing == [raised |-> FALSE, value |-> << >>]
NoExit == [how |-> "running", code |-> 0, msg |-> "", errno |-> 0]

InitProgram ==
    /\ pc = "idle"
    /\ cmdName = << >>
    /\ subArg = << >>
    /\ subcommand_tuples = {}
    /\ listed = NoListing
    /\ resolved = NoOutcome
    /\ launchErr = 0
    /\ exitStatus = NoExit

\* the sequences over S of length at most n
RECURSIVE SeqsUpTo(_, _)
SeqsUpTo(S, n) ==
    IF n = 0 THEN {<< >>}
    ELSE LET shorter == SeqsUpTo(S, n - 1)
         IN shorter \cup {Append(q, x) : q \in shorter, x \in S}

\* the subsets of S with at most n elements
RECURSIVE SubsetsUpTo(_, _)
SubsetsUpTo(S, n) ==
    IF n = 0 THEN {{}}
    ELSE LET smaller == SubsetsUpTo(S, n - 1)
         IN smaller \cup {q \cup {x} : q \in smaller, x \in S}

BareArgv0 == [dir |-> NoDir, exec |-> FALSE, link |-> FALSE, realdir |-> NoDir]

\* sys.argv[0]: a bare name, a file in a directory, or a symlink to a file
\* in a directory (os.access follows the link, so one flag serves both)
Argv0s ==
    {BareArgv0}
    \cup {[dir |-> d, exec |-> x, link |-> FALSE, realdir |-> NoDir] :
            d \in Dirs, x \in BOOLEAN}
    \cup {[dir |-> d, exec |-> x, link |-> TRUE, realdir |-> r] :
            d \in Dirs, x \in BOOLEAN, r \in Dirs}

(***************************************************************************)
(* Listing runs: any entries in two directories, each directory listable,  *)
(* unreadable or absent.                                                   *)
(***************************************************************************)
ListSlots == {[dir |-> d, name |-> n, kind |-> "exec"] : d \in ListDirs, n \in FileNames}
ListFileSystems == SubsetsUpTo(ListSlots, MaxFiles)
ListPaths == SeqsUpTo(ListDirs, MaxPath)
ListDirStates ==
    {st \in [Dirs -> {"ok", "unreadable", "absent"}] : st["d3"] = "ok"}

InitList ==
    /\ files \in ListFileSystems
    /\ dirState \in {st \in ListDirStates :
                        \A f \in files : st[f.dir] # "absent"}
    /\ environPATH \in ListPaths
    /\ platformWin \in BOOLEAN
    /\ scriptsDir = NoScripts
    /\ argv0 = BareArgv0
    /\ argv = << >>
    /\ InitProgram

(***************************************************************************)
(* Resolution runs: one file name, present or not in each of three         *)
(* directories, under every arrangement of PATH, scripts directory and     *)
(* argv[0].                                                                *)
(***************************************************************************)
ResolveFileSystems ==
    {{[dir |-> d, name |-> FileNF, kind |-> k[d]] : d \in {e \in Dirs : k[e] # "none"}} :
        k \in [Dirs -> Kinds \cup {"none"}]}
ResolvePaths == SeqsUpTo(Dirs, MaxPath)

InitResolve ==
    /\ files \in ResolveFileSystems
    /\ dirState = [d \in Dirs |-> "ok"]
    /\ environPATH \in ResolvePaths
    /\ platformWin = FALSE
    /\ scriptsDir \in {"d3", NoScripts}
    /\ argv0 \in Argv0s
    /\ argv = << >>
    /\ InitProgram

(***************************************************************************)
(* Operations.                                                             *)
(***************************************************************************)
\* list_subcommands(name)
ListSubcommands(name) ==
    /\ pc = "idle"
    /\ LET r == list_subcommands(name)
       IN /\ subcommand_tuples' = r.tuples
          /\ listed' = [raised |-> r.raised, value |-> r.value]
    /\ cmdName' = name
    /\ pc' = "listed"
    /\ UNCHANGED << envVars, subArg, resolved, launchErr, exitStatus >>

\* _command_abspath(name, subcommand)
CommandAbspath(name, subcommand) ==
    /\ pc = "idle"
    /\ cmdName' = name
    /\ subArg' = subcommand
    /\ resolved' = command_abspath(name, subcommand)
    /\ pc' = "resolved"
    /\ UNCHANGED << envVars, subcommand_tuples, listed, launchErr, exitStatus >>

\* _command_abspath(name, s) for a name s that list_subcommands(name) returned
ResolveListed ==
    /\ pc = "listed"
    /\ ~ listed.raised
    /\ \E i \in 1..Len(listed.value) :
          /\ subArg' = listed.value[i]
          /\ resolved' = command_abspath(cmdName, listed.value[i])
    /\ pc' = "resolved"
    /\ UNCHANGED << envVars, cmdName, subcommand_tuples, listed, launchErr, exitStatus >>

NextList ==
    \/ \E name \in CommandNames : ListSubcommands(name)
    \/ ResolveListed

SpecList == InitList /\ [][NextList]_vars

NextResolve ==
    \/ \E subcommand \in {StrF, StrB} : CommandAbspath(StrN, subcommand)
    \/ ListSubcommands(StrN)
    \/ ResolveListed

SpecResolve == InitResolve /\ [][NextResolve]_vars


(***************************************************************************)
(* subcommand(): the dispatch run.                                         *)
(***************************************************************************)
ArgX == << "-", "x" >>              \* a flag the parser does not know
ArgVersion == << "-", "-", "v" >>   \* stands for "--version"
Args == {StrF, StrEmpty, ArgX, ArgVersion}
Errnos == {2, 8, 13}                \* ENOENT, ENOEXEC, EACCES
ChildCodes == {0, 1}

IsFlag(a) == StartsWith(a, << Hyphen >>)

\* the positional arguments of args, in order
RECURSIVE Positionals(_)
Positionals(args) ==
    IF args = << >> THEN << >>
    ELSE IF IsFlag(Head(args)) THEN Positionals(Tail(args))
    ELSE << Head(args) >> \o Positionals(Tail(args))

\* command_parser(name, description).parse_known_args(): a required,
\* mutually exclusive group of --version and an optional positional
\* `subcommand`; unknown flags are left in opts
ParseKnownArgs(args) ==
    LET version == ArgVersion \in Range(args)
        pos == Positionals(args)
    IN IF version /\ pos # << >>
       THEN [error |-> "not allowed with argument", version |-> FALSE, given |-> FALSE,
             subcommand |-> << >>]
       ELSE IF version
       THEN [error |-> "", version |-> TRUE, given |-> FALSE, subcommand |-> << >>]
       ELSE IF pos = << >>
       THEN [error |-> "one of the arguments is required", version |-> FALSE,
             given |-> FALSE, subcommand |-> << >>]
       ELSE [error |-> "", version |-> FALSE, given |-> TRUE, subcommand |-> pos[1]]

SysExit(code, msg, errno) == [how |-> "exit", code |-> code, msg |-> msg, errno |-> errno]

\* lines 188-202: where the subcommand comes from, and the exits before
\* resolution; `go` carries on to _command_abspath
ChooseSubcommand(args) ==
    IF Len(args) > 0 /\ ~ IsFlag(args[1])
    THEN IF args[1] = << >>
         \* `parser` is unbound on this path: print_usage raises UnboundLocalError
         THEN [go |-> FALSE, sub |-> << >>,
               exit |-> SysExit(1, "Traceback: UnboundLocalError", 0)]
         ELSE [go |-> TRUE, sub |-> args[1], exit |-> NoExit]
    ELSE LET parsed == ParseKnownArgs(args)
         IN IF parsed.error # ""
            THEN [go |-> FALSE, sub |-> << >>, exit |-> SysExit(2, parsed.error, 0)]
            ELSE IF parsed.version
            THEN [go |-> FALSE, sub |-> << >>,
                  exit |-> [how |-> "return", code |-> 0, msg |-> "version", errno |-> 0]]
            ELSE IF parsed.subcommand = << >>
            THEN [go |-> FALSE, sub |-> << >>,
                  exit |-> SysExit(1, "subcommand is required", 0)]
            ELSE [go |-> TRUE, sub |-> parsed.subcommand, exit |-> NoExit]

\* except CommandMissing as e: sys.exit(e)
ExitOnMissing(outcome) == SysExit(1, outcome.msg.what, 0)

\* a slip: CommandMissing is swallowed and the run carries on
AfterResolveAlwaysLaunch(outcome) == "launch"

\* where the run goes once _command_abspath has returned or raised
AfterResolve(outcome) == IF outcome.kind = "ok" THEN "launch" ELSE "exited"

\* except OSError as e: sys.exit(f"Error executing ...: {e}. errno={e.errno}")
ExitOnLaunchError(errno) == SysExit(1, "Error executing", errno)

\* what _execvp(command, argv) can do: replace the process image (POSIX),
\* spawn a child and exit with its code (Windows), or raise OSError
LaunchResults ==
    {[err |-> e, code |-> 0] : e \in Errnos}
    \cup (IF platformWin
          THEN {[err |-> 0, code |-> c] : c \in ChildCodes}
          ELSE {[err |-> 0, code |-> 0]})

DispatchFileSystems ==
    {{[dir |-> "d1", name |-> FileNF, kind |-> k]} : k \in Kinds} \cup {{}}

Init ==
    /\ files \in DispatchFileSystems
    /\ dirState = [d \in Dirs |-> "ok"]
    /\ environPATH = << "d1" >>
    /\ platformWin \in BOOLEAN
    /\ scriptsDir = NoScripts
    /\ argv0 = BareArgv0
    /\ argv \in SeqsUpTo(Args, MaxArgs)
    /\ InitProgram

\* lines 179-186
DispatchBegin(name) ==
    /\ pc = "idle"
    /\ cmdName' = name
    /\ IF name = StrGeneric
       THEN /\ pc' = "exited"
            /\ exitStatus' = SysExit(1, "meant to be symlinked", 0)
       ELSE /\ pc' = "args"
            /\ UNCHANGED exitStatus
    /\ UNCHANGED << envVars, subArg, subcommand_tuples, listed, resolved, launchErr >>

\* lines 188-202
DispatchArgs ==
    /\ pc = "args"
    /\ LET r == ChooseSubcommand(argv)
       IN /\ subArg' = r.sub
          /\ exitStatus' = r.exit
          /\ pc' = IF r.go THEN "resolve" ELSE "exited"
    /\ UNCHANGED << envVars, cmdName, subcommand_tuples, listed, resolved, launchErr >>

\* lines 204-207
DispatchResolve ==
    /\ pc = "resolve"
    /\ LET outcome == command_abspath(cmdName, subArg)
       IN /\ resolved' = outcome
          /\ pc' = AfterResolve(outcome)
          /\ exitStatus' = IF outcome.kind = "ok" THEN exitStatus
                           ELSE ExitOnMissing(outcome)
    /\ UNCHANGED << envVars, cmdName, subArg, subcommand_tuples, listed, launchErr >>

\* lines 209-214
DispatchLaunch ==
    /\ pc = "launch"
    /\ \E r \in LaunchResults :
          /\ launchErr' = r.err
          /\ IF r.err # 0
             THEN /\ pc' = "exited"
                  /\ exitStatus' = ExitOnLaunchError(r.err)
             ELSE IF platformWin
             THEN /\ pc' = "exited"
                  /\ exitStatus' = SysExit(r.code, "", 0)
             ELSE /\ pc' = "replaced"
                  /\ exitStatus' = [how |-> "replaced", code |-> 0, msg |-> "", errno |-> 0]
    /\ UNCHANGED << envVars, cmdName, subArg, subcommand_tuples, listed, resolved >>

Next ==
    \/ \E name \in {StrN, StrGeneric} : DispatchBegin(name)
    \/ DispatchArgs
    \/ DispatchResolve
    \/ DispatchLaunch

Spec == Init /\ [][Next]_vars


(***************************************************************************)
(* Properties.                                                             *)
(***************************************************************************)
\* t has a strict, non-empty prefix in S
HasParentIn(t, S) ==
    \E p \in S : /\ Len(p) >= 1
                 /\ Len(p) < Len(t)
                 /\ \A i \in 1..Len(p) : p[i] = t[i]

ExampleTuples == {<< StrF >>, << StrF, StrB >>, << StrB, StrF >>}
ExampleListing == << << "b", "-", "f" >>, StrF >>

\* C1: once list_subcommands has returned, its value holds exactly the
\* hyphen-joins of the discovered tuples none of whose strict non-empty
\* prefixes was discovered; the tuples {f, f-b, b-f} give exactly [b-f, f].
C1_ParentShadowsChild ==
    (pc \in {"listed", "resolved"} /\ ~ listed.raised) =>
        /\ Range(listed.value) =
              {Join(Hyphen, t) :
                  t \in {u \in subcommand_tuples : ~ HasParentIn(u, subcommand_tuples)}}
        /\ (subcommand_tuples = ExampleTuples => listed.value = ExampleListing)

C1_Witness ==
    /\ pc = "listed"
    /\ subcommand_tuples = ExampleTuples
    /\ listed.value = ExampleListing

\* the positions of the search path whose directory holds a file (not a
\* directory) called n
Holds(d, n) == KindOf(d, n) \in {"exec", "noexec"}
HoldingPositions(n) == {i \in 1..Len(path_with_self) : Holds(path_with_self[i], n)}
FirstHolding(n) ==
    path_with_self[CHOOSE i \in HoldingPositions(n) : \A j \in HoldingPositions(n) : i <= j]

\* C2: every name list_subcommands returned resolves: _command_abspath
\* returns a path for it.
C2_RoundTrip ==
    (pc = "resolved" /\ subArg \in Range(listed.value)) => resolved.kind = "ok"

\* C3: when two or more directories of the search path hold a file called
\* <name>-<subcommand>, the file resolution settles on is the one in the
\* earliest of them: it is returned when it is executable, and it is the one
\* reported as not executable otherwise; no later copy is ever returned.
C3_FirstMatchWins ==
    (pc = "resolved"
        /\ Cardinality({path_with_self[i] : i \in HoldingPositions(resolved.name)}) >= 2) =>
        /\ resolved.match = FirstHolding(resolved.name)
        /\ resolved.kind =
              IF KindOf(FirstHolding(resolved.name), resolved.name) = "exec"
              THEN "ok" ELSE "notexec"

C3_Witness ==
    /\ pc = "resolved"
    /\ resolved.kind = "ok"
    /\ \E i, j \in HoldingPositions(resolved.name) :
          /\ i < j
          /\ path_with_self[i] # path_with_self[j]
          /\ resolved.match = path_with_self[i]
          /\ KindOf(path_with_self[j], resolved.name) = "exec"

\* the directory of sys.argv[0] has been put on the search path and holds a
\* file called <name>-<subcommand>
SelfHoldsCopy ==
    /\ pc = "resolved"
    /\ argv0.dir \in Dirs
    /\ IsDir(argv0.dir)
    /\ argv0.exec
    /\ Holds(argv0.dir, resolved.name)

\* how many directories _path_with_self puts in front of the inherited PATH
SelfCount == Len(path_with_self) - Len(PathWithScripts)

\* the inherited PATH sits, in order, right behind the self directories
InheritedFollowsSelf ==
    SubSeq(path_with_self, SelfCount + 1, SelfCount + Len(InheritedPath)) = InheritedPath

C5_NotExecutableIsNotNotFound ==
    pc = "resolved" =>
        /\ (HoldingPositions(resolved.name) # {}
              /\ KindOf(FirstHolding(resolved.name), resolved.name) = "noexec") =>
              /\ resolved.kind = "notexec"
              /\ resolved.msg.what = "is not executable."
              /\ resolved.msg.cmd = cmdName \o << Hyphen >> \o subArg
        /\ (\E d \in Range(path_with_self) : KindOf(d, resolved.name) = "noexec") =>
              /\ resolved.kind # "notfound"
              /\ resolved.msg.what # "not found."

C5_Witness ==
    /\ pc = "resolved"
    /\ resolved.kind = "notexec"
    /\ KindOf(resolved.match, resolved.name) = "noexec"
    /\ \E d \in Range(path_with_self) : KindOf(d, resolved.name) = "exec"

\* C6: when no directory of the search path holds a file called
\* <name>-<subcommand>, resolution raises CommandMissing with the
\* "not found." message, which names <name>-<subcommand>, and returns no path.
C6_MissingIsNotFound ==
    (pc = "resolved" /\ HoldingPositions(resolved.name) = {}) =>
        /\ resolved.kind = "notfound"
        /\ resolved.match = NoDir
        /\ resolved.msg.what = "not found."
        /\ resolved.msg.cmd = cmdName \o << Hyphen >> \o subArg
        /\ resolved.name = cmdName \o << Hyphen >> \o subArg

C6_Witness ==
    /\ pc = "resolved"
    /\ resolved.kind = "notfound"
    /\ \E d \in Range(path_with_self) : KindOf(d, resolved.name) = "dir"
    /\ \E d \in Dirs \ Range(path_with_self) : KindOf(d, resolved.name) = "exec"

\* the tuples the listable directories of the search path yield
ListableTuples ==
    {EntryTuple(f.name) :
        f \in {g \in files : /\ g.dir \in Range(path_with_self)
                             /\ dirState[g.dir] = "ok"
                             /\ StartsWith(g.name, cmdName \o << Hyphen >>)}}

\* C7: list_subcommands never raises: a directory whose listing fails is
\* skipped, and the tuples and the value are exactly those of the search
\* path's listable directories.
C7_UnlistableDirectoriesSkipped ==
    pc \in {"listed", "resolved"} =>
        /\ ~ listed.raised
        /\ subcommand_tuples = ListableTuples
        /\ listed.value = Sorted(Subcommands(ListableTuples))

C7_Witness ==
    /\ pc = "listed"
    /\ ~ listed.raised
    /\ listed.value # << >>
    /\ \E d \in Range(path_with_self) :
          /\ dirState[d] = "unreadable"
          /\ \E f \in files : f.dir = d /\ StartsWith(f.name, cmdName \o << Hyphen >>)
                                /\ EntryTuple(f.name) \notin subcommand_tuples

\* no argument of the run names a subcommand, and no version was asked for
NoSubcommandGiven ==
    /\ \A i \in 1..Len(argv) : IsFlag(argv[i]) \/ argv[i] = << >>
    /\ ArgVersion \notin Range(argv)

FailedExit(msg) ==
    /\ pc = "exited"
    /\ exitStatus.how = "exit"
    /\ exitStatus.code # 0
    /\ exitStatus.msg = msg

C9_TupleIsRestAfterPrefix ==
    pc \in {"listed", "resolved"} =>
        LET prefix == cmdName \o << Hyphen >>
            Stem(n) == IF platformWin THEN SplitextRoot(n) ELSE n
            entries == {f.name : f \in {g \in files :
                           /\ g.dir \in Range(path_with_self)
                           /\ dirState[g.dir] = "ok"
                           /\ StartsWith(g.name, prefix)}}
        IN /\ \A n \in entries :
                Split(SubSeq(Stem(n), Len(prefix) + 1, Len(Stem(n))), Hyphen)
                    \in subcommand_tuples
           /\ \A t \in subcommand_tuples :
                \E n \in entries : prefix \o Join(Hyphen, t) = Stem(n)

\* C10 as stated: the scripts directory, when reported, is the last entry of
\* the search path, behind every inherited PATH entry, so that when a
\* directory of the inherited PATH holds <name>-<subcommand> the copy in the
\* scripts directory is not the one resolution settles on; with no scripts
\* directory nothing is appended.
ScriptsLast ==
    IF scriptsDir = NoScripts
    THEN SubSeq(path_with_self, SelfCount + 1, Len(path_with_self)) = InheritedPath
    ELSE /\ path_with_self[Len(path_with_self)] = scriptsDir
         /\ SubSeq(path_with_self, SelfCount + 1, Len(path_with_self) - 1) = InheritedPath

PathCopyAndScriptsCopy ==
    /\ pc = "resolved"
    /\ scriptsDir # NoScripts
    /\ scriptsDir \notin Range(InheritedPath)
    /\ Holds(scriptsDir, resolved.name)
    /\ \E d \in Range(InheritedPath) : Holds(d, resolved.name)

SelfDirs == {path_with_self[i] : i \in 1..SelfCount}

=============================================================================
